---- MODULE Spec2Model ----
(***************************************************************************)
(* ResqFood API (src/main.py): the donation lifecycle over a document      *)
(* store.  Every handler is a sequence of store calls; each store call is  *)
(* one atomic step, and handlers of concurrent requests interleave between *)
(* their store calls.                                                      *)
(***************************************************************************)
EXTENDS Integers, Sequences, FiniteSets, TLC

VARIABLES
    users,      \* db["user"]: ObjectId -> user document
    donations,  \* db["donation"]: ObjectId -> donation document
    nextId,     \* next ObjectId the driver generates on insert_one
    now,        \* datetime.utcnow(): later at every store write
    pc,         \* per request slot: the store call the handler makes next
    call,       \* per request slot: the handler's arguments
    local,      \* per request slot: the handler's local variables
    resp,       \* per request slot: the HTTP response of the finished handler
    started     \* requests received so far

vars == <<users, donations, nextId, now, pc, call, local, resp, started>>

----------------------------------------------------------------------------
(* Bounds *)

\* concurrent requests in flight
NumProcs == 2
\* requests received in one run
MaxRequests == 3

Procs == 1..NumProcs

----------------------------------------------------------------------------
(* Identifiers: ObjectId <-> string *)

\* str(ObjectId): lower-case hex
HexLower == <<"a1", "a2", "a3", "a4", "a5", "a6", "a7", "a8", "a9">>
\* the same identifiers written in upper case, which ObjectId() also accepts
HexUpper == <<"A1", "A2", "A3", "A4", "A5", "A6", "A7", "A8", "A9">>
\* a string ObjectId() rejects
Malformed == "zz"

\* no ObjectId: bson.errors.InvalidId was raised
NoId == 0
\* None as the value of a field
None == "None"
\* None in place of a document
NoDoc == [none |-> TRUE]

\* the 24-hex-digit strings, in either case, and the ObjectId each denotes
HexValue ==
    [s \in {HexLower[n] : n \in DOMAIN HexLower} \cup {HexUpper[n] : n \in DOMAIN HexUpper} |->
        CHOOSE n \in DOMAIN HexLower : s \in {HexLower[n], HexUpper[n]}]

\* ObjectId(id_str), NoId when bson raises InvalidId
ObjectId(s) == IF s \in DOMAIN HexValue THEN HexValue[s] ELSE NoId

\* str(_id)
IdStr(n) == HexLower[n]

----------------------------------------------------------------------------
(* HTTP responses *)

Ok(body) == [status |-> 200, detail |-> "", body |-> body]
HTTPException(code, detail) == [status |-> code, detail |-> detail, body |-> NoDoc]
NoResponse == [status |-> 0, detail |-> "", body |-> NoDoc]

InvalidID        == HTTPException(400, "Invalid ID")
InvalidRestaurant == HTTPException(400, "Invalid restaurant user")
InvalidClaimerErr == HTTPException(400, "Invalid claimer")
NotAvailable     == HTTPException(400, "Donation not available")
DonationNotFound == HTTPException(404, "Donation not found")
EmailRegistered  == HTTPException(400, "Email already registered")

\* oid(id_str): TRUE when it raises HTTPException(400, "Invalid ID")
oidRaises(s) == ObjectId(s) = NoId

\* db[coll].find_one({"_id": oid(id_str)})
find_one(coll, s) == IF ObjectId(s) \in DOMAIN coll THEN coll[ObjectId(s)] ELSE NoDoc

\* datetime.isoformat()
isoformat(t) == <<"iso", t>>

\* serialize_doc of a donation document read from the store under _id
serialize_doc(coll, s) ==
    IF find_one(coll, s) = NoDoc THEN NoDoc
    ELSE LET d == find_one(coll, s) IN
         [d EXCEPT !.expiry_time = isoformat(@),
                   !.created_at = isoformat(@),
                   !.updated_at = isoformat(@)]
         @@ [id |-> IdStr(ObjectId(s))]

----------------------------------------------------------------------------
(* Initial state *)

\* The user collection when the donation requests start: four users registered
\* through /auth/register, one of each role.  No donation handler writes db["user"].
SeedUsers ==
    [n \in 1..4 |->
        [email |-> <<"restaurant@x", "ngo@x", "society@x", "admin@x">>[n],
         role  |-> <<"restaurant", "ngo", "society", "admin">>[n]]]

\* the first _id a donation gets
FirstDonationId == Len(SeedUsers) + 1

Idle == [op |-> "idle"]
\* gone: the donation the request names had been deleted when the request began
NoLocal == [gone |-> FALSE]

\* No donation yet.  The clock is logical: utcnow() is read at each store write and
\* is later at the next one.
Init ==
    /\ users = SeedUsers
    /\ donations = << >>
    /\ nextId = FirstDonationId
    /\ now = 0
    /\ pc = [p \in Procs |-> "idle"]
    /\ call = [p \in Procs |-> Idle]
    /\ local = [p \in Procs |-> NoLocal]
    /\ resp = [p \in Procs |-> NoResponse]
    /\ started = 0

----------------------------------------------------------------------------
(* Store operations *)

\* {"$set": updates} applied to one document
SetFields(doc, updates) ==
    [f \in DOMAIN doc |-> IF f \in DOMAIN updates THEN updates[f] ELSE doc[f]]

\* res.matched_count of update_one({"_id": id}, ...)
matched_count(coll, id) == IF id \in DOMAIN coll THEN 1 ELSE 0

\* update_one with the filter dropped: every document is updated
update_one_NoFilter(coll, id, updates) ==
    [i \in DOMAIN coll |-> SetFields(coll[i], updates)]

\* update_one with upsert=True: a document is made when none matches; the fields
\* it was not given read as null
update_one_Upsert(coll, id, updates) ==
    IF id \in DOMAIN coll
    THEN [coll EXCEPT ![id] = SetFields(@, updates)]
    ELSE coll @@ (id :> (updates @@
            [f \in {"food_item", "quantity", "pickup_address", "expiry_time",
                    "restaurant_id", "restaurant_name", "status", "claimed_by",
                    "claimed_by_id", "created_at", "updated_at"} |-> None]))

\* the collection after update_one({"_id": id}, {"$set": updates})
update_one(coll, id, updates) ==
    IF id \in DOMAIN coll
    THEN [coll EXCEPT ![id] = SetFields(@, updates)]
    ELSE coll

\* the collection after delete_one({"_id": id})
delete_one(coll, id) == [i \in DOMAIN coll \ {id} |-> coll[i]]

\* the collection after insert_one(doc) under the generated _id
insert_one(coll, id, doc) == coll @@ (id :> doc)

\* the donation had an _id once and was deleted
Deleted(s) ==
    /\ ObjectId(s) # NoId
    /\ ObjectId(s) >= FirstDonationId
    /\ ObjectId(s) < nextId
    /\ ObjectId(s) \notin DOMAIN users
    /\ ObjectId(s) \notin DOMAIN donations

\* a handler returns or raises: its response is recorded
Finish(p, r) ==
    /\ pc' = [pc EXCEPT ![p] = "done"]
    /\ resp' = [resp EXCEPT ![p] = r]

\* the first free slot receives a request
Receive(p, c) ==
    /\ pc[p] \in {"idle", "done"}
    /\ \A q \in Procs : q < p => pc[q] \notin {"idle", "done"}
    /\ started < MaxRequests
    /\ started' = started + 1
    /\ call' = [call EXCEPT ![p] = c]

Goto(p, label) ==
    /\ pc' = [pc EXCEPT ![p] = label]
    /\ UNCHANGED resp

----------------------------------------------------------------------------
(* Request inputs *)

\* a well-formed identifier no document has
MissingId == IdStr(Len(HexLower))

\* restaurant_id of DonationCreateRequest, user_id of ClaimRequest
UserIdInputs == {IdStr(n) : n \in DOMAIN SeedUsers} \cup {MissingId, Malformed}

\* donation_id path parameter: an id some response has shown, an id no donation
\* has, a malformed one
DonationIdInputs ==
    {IdStr(n) : n \in FirstDonationId..(nextId - 1)} \cup {MissingId, Malformed}

\* bodies of ClaimRequest
ClaimInputs ==
    { [user_id |-> IdStr(2), role |-> "ngo", user_name |-> "Helpers Inc"],
      [user_id |-> HexUpper[3], role |-> "society", user_name |-> "Food Bank"],
      [user_id |-> IdStr(2), role |-> "society", user_name |-> "Helpers Inc"],
      [user_id |-> IdStr(4), role |-> "ngo", user_name |-> "Helpers Inc"],
      [user_id |-> MissingId, role |-> "ngo", user_name |-> "Helpers Inc"],
      [user_id |-> Malformed, role |-> "society", user_name |-> "Food Bank"] }

\* bodies of DonationUpdateRequest: no field, one field, two fields, all fields
UpdateInputs ==
    { [food_item |-> None, quantity |-> None, pickup_address |-> None, expiry_time |-> None],
      [food_item |-> "Bread", quantity |-> None, pickup_address |-> None, expiry_time |-> None],
      [food_item |-> None, quantity |-> "5kg", pickup_address |-> "9 Side Rd", expiry_time |-> None],
      [food_item |-> "Bread", quantity |-> "5kg", pickup_address |-> "9 Side Rd", expiry_time |-> "2031-06-30"] }

\* str.capitalize() on the role literals
capitalize(role) ==
    CASE role = "ngo" -> "Ngo"
      [] role = "society" -> "Society"
      [] OTHER -> role

----------------------------------------------------------------------------
(* POST /donations *)

\* create_donation without the role check: any existing user passes
CreateFindUser_AnyRole(p) ==
    /\ \E rid \in UserIdInputs :
        /\ Receive(p, [op |-> "create", food_item |-> "Rice", quantity |-> "10kg",
                 pickup_address |-> "12 Main St", expiry_time |-> "2030-01-01",
                 restaurant_id |-> rid, restaurant_name |-> "Spice Hub"])
        /\ IF oidRaises(rid)
           THEN Finish(p, InvalidID)
           ELSE IF find_one(users, rid) = NoDoc
                THEN Finish(p, InvalidRestaurant)
                ELSE Goto(p, "create_insert")
    /\ local' = [local EXCEPT ![p] = NoLocal]
    /\ UNCHANGED <<users, donations, nextId, now>>

\* restaurant = db["user"].find_one(...); raise unless it is a restaurant
CreateFindUser(p) ==
    /\ \E rid \in UserIdInputs :
        /\ Receive(p, [op |-> "create", food_item |-> "Rice", quantity |-> "10kg",
                 pickup_address |-> "12 Main St", expiry_time |-> "2030-01-01",
                 restaurant_id |-> rid, restaurant_name |-> "Spice Hub"])
        /\ IF oidRaises(rid)
           THEN Finish(p, InvalidID)
           ELSE IF find_one(users, rid) = NoDoc
                THEN Finish(p, InvalidRestaurant)
                ELSE IF find_one(users, rid).role # "restaurant"
                     THEN Finish(p, InvalidRestaurant)
                     ELSE Goto(p, "create_insert")
    /\ local' = [local EXCEPT ![p] = NoLocal]
    /\ UNCHANGED <<users, donations, nextId, now>>

\* the document create_donation builds
NewDonation(req, t) ==
    [food_item |-> req.food_item,
     quantity |-> req.quantity,
     pickup_address |-> req.pickup_address,
     expiry_time |-> req.expiry_time,
     restaurant_id |-> req.restaurant_id,
     restaurant_name |-> req.restaurant_name,
     status |-> "available",
     claimed_by |-> None,
     claimed_by_id |-> None,
     created_at |-> t,
     updated_at |-> t]

\* result = db["donation"].insert_one(donation); return donation with its id
CreateInsert(p) ==
    /\ pc[p] = "create_insert"
    /\ donations' = insert_one(donations, nextId, NewDonation(call[p], now))
    /\ nextId' = nextId + 1
    /\ now' = now + 1
    /\ Finish(p, Ok(NewDonation(call[p], now) @@ [id |-> IdStr(nextId)]))
    /\ UNCHANGED <<users, call, local, started>>

----------------------------------------------------------------------------
(* PATCH /donations/{donation_id} *)

UpdateFields == {"food_item", "quantity", "pickup_address", "expiry_time"}

\* updates = {k: v for k, v in req.model_dump().items() if v is not None}
NonNull(req) ==
    [k \in {f \in UpdateFields : req[f] # None} |-> req[k]]

\* the handler up to and including its update_one (or, with no updates, its find_one)
UpdateDonation(p) ==
    /\ \E did \in DonationIdInputs, req \in UpdateInputs :
        /\ Receive(p, [op |-> "update", donation_id |-> did, req |-> req])
        /\ local' = [local EXCEPT ![p].gone = Deleted(did)]
        /\ IF DOMAIN NonNull(req) = {}
           THEN /\ IF oidRaises(did)
                   THEN Finish(p, InvalidID)
                   ELSE Finish(p, Ok(serialize_doc(donations, did)))
                /\ UNCHANGED <<donations, now>>
           ELSE IF oidRaises(did)
                THEN /\ Finish(p, InvalidID)
                     /\ UNCHANGED <<donations, now>>
                ELSE /\ donations' = update_one(donations, ObjectId(did),
                                        NonNull(req) @@ [updated_at |-> now])
                     /\ now' = now + 1
                     /\ IF matched_count(donations, ObjectId(did)) = 0
                        THEN Finish(p, DonationNotFound)
                        ELSE Goto(p, "update_read")
    /\ UNCHANGED <<users, nextId>>

\* return serialize_doc(db["donation"].find_one(...))
UpdateRead(p) ==
    /\ pc[p] = "update_read"
    /\ Finish(p, Ok(serialize_doc(donations, call[p].donation_id)))
    /\ UNCHANGED <<users, donations, nextId, now, call, local, started>>

----------------------------------------------------------------------------
(* DELETE /donations/{donation_id} *)

DeleteDonation(p) ==
    /\ \E did \in DonationIdInputs :
        /\ Receive(p, [op |-> "delete", donation_id |-> did])
        /\ local' = [local EXCEPT ![p].gone = Deleted(did)]
        /\ IF oidRaises(did)
           THEN /\ Finish(p, InvalidID)
                /\ UNCHANGED donations
           ELSE /\ donations' = delete_one(donations, ObjectId(did))
                /\ IF ObjectId(did) \notin DOMAIN donations
                   THEN Finish(p, DonationNotFound)
                   ELSE Finish(p, Ok([success |-> TRUE]))
    /\ UNCHANGED <<users, nextId, now>>

----------------------------------------------------------------------------
(* POST /donations/{donation_id}/claim *)

\* claim_donation without the role check: any existing user passes
ClaimFindUser_AnyRole(p) ==
    /\ \E did \in DonationIdInputs, req \in ClaimInputs :
        /\ Receive(p, [op |-> "claim", donation_id |-> did] @@ req)
        /\ local' = [local EXCEPT ![p].gone = Deleted(did)]
        /\ IF oidRaises(req.user_id)
           THEN Finish(p, InvalidID)
           ELSE IF find_one(users, req.user_id) = NoDoc
                THEN Finish(p, InvalidClaimerErr)
                ELSE Goto(p, "claim_find")
    /\ UNCHANGED <<users, donations, nextId, now>>

\* user = db["user"].find_one(...); raise unless it is an ngo or a society
ClaimFindUser(p) ==
    /\ \E did \in DonationIdInputs, req \in ClaimInputs :
        /\ Receive(p, [op |-> "claim", donation_id |-> did] @@ req)
        /\ local' = [local EXCEPT ![p].gone = Deleted(did)]
        /\ IF oidRaises(req.user_id)
           THEN Finish(p, InvalidID)
           ELSE IF find_one(users, req.user_id) = NoDoc
                THEN Finish(p, InvalidClaimerErr)
                ELSE IF find_one(users, req.user_id).role \notin {"ngo", "society"}
                     THEN Finish(p, InvalidClaimerErr)
                     ELSE Goto(p, "claim_find")
    /\ UNCHANGED <<users, donations, nextId, now>>

\* donation = db["donation"].find_one(...); raise unless it is available
ClaimFindDonation(p) ==
    /\ pc[p] = "claim_find"
    /\ IF oidRaises(call[p].donation_id)
       THEN Finish(p, InvalidID)
       ELSE IF find_one(donations, call[p].donation_id) = NoDoc
            THEN Finish(p, DonationNotFound)
            ELSE IF find_one(donations, call[p].donation_id).status # "available"
                 THEN Finish(p, NotAvailable)
                 ELSE Goto(p, "claim_write")
    /\ UNCHANGED <<users, donations, nextId, now, call, local, started>>

\* the $set of claim_donation with claimed_by_id left out
ClaimUpdates_NoClaimerId(req, t) ==
    [status |-> "claimed",
     claimed_by |-> capitalize(req.role) \o ": " \o req.user_name,
     updated_at |-> t]

\* the $set of claim_donation
ClaimUpdates(req, t) ==
    [status |-> "claimed",
     claimed_by |-> capitalize(req.role) \o ": " \o req.user_name,
     claimed_by_id |-> req.user_id,
     updated_at |-> t]

\* db["donation"].update_one({"_id": oid(donation_id)}, {"$set": ...})
ClaimWrite(p) ==
    /\ pc[p] = "claim_write"
    /\ donations' = update_one(donations, ObjectId(call[p].donation_id),
                               ClaimUpdates(call[p], now))
    /\ now' = now + 1
    /\ Goto(p, "claim_read")
    /\ UNCHANGED <<users, nextId, call, local, started>>

\* return serialize_doc(db["donation"].find_one(...))
ClaimRead(p) ==
    /\ pc[p] = "claim_read"
    /\ Finish(p, Ok(serialize_doc(donations, call[p].donation_id)))
    /\ UNCHANGED <<users, donations, nextId, now, call, local, started>>

----------------------------------------------------------------------------
(* POST /donations/{donation_id}/deliver *)

\* donation = db["donation"].find_one(...); raise when there is none
DeliverFind(p) ==
    /\ \E did \in DonationIdInputs :
        /\ Receive(p, [op |-> "deliver", donation_id |-> did])
        /\ local' = [local EXCEPT ![p].gone = Deleted(did)]
        /\ IF oidRaises(did)
           THEN Finish(p, InvalidID)
           ELSE IF find_one(donations, did) = NoDoc
                THEN Finish(p, DonationNotFound)
                ELSE Goto(p, "deliver_write")
    /\ UNCHANGED <<users, donations, nextId, now>>

\* the $set of mark_delivered with the status misspelt
DeliverUpdates_Misspelt(t) == [status |-> "deliverd", updated_at |-> t]

\* the $set of mark_delivered
DeliverUpdates(t) == [status |-> "delivered", updated_at |-> t]

\* db["donation"].update_one({"_id": oid(donation_id)}, {"$set": ...})
DeliverWrite(p) ==
    /\ pc[p] = "deliver_write"
    /\ donations' = update_one(donations, ObjectId(call[p].donation_id),
                               DeliverUpdates(now))
    /\ now' = now + 1
    /\ Goto(p, "deliver_read")
    /\ UNCHANGED <<users, nextId, call, local, started>>

\* return serialize_doc(db["donation"].find_one(...))
DeliverRead(p) ==
    /\ pc[p] = "deliver_read"
    /\ Finish(p, Ok(serialize_doc(donations, call[p].donation_id)))
    /\ UNCHANGED <<users, donations, nextId, now, call, local, started>>

----------------------------------------------------------------------------
(* POST /auth/register *)

\* bodies of RegisterRequest: a new email under two roles, an email already taken
RegisterInputs ==
    { [email |-> "new@x", role |-> "ngo"],
      [email |-> "new@x", role |-> "restaurant"],
      [email |-> "ngo@x", role |-> "society"] }

\* db["user"].find_one({"email": email})
find_by_email(coll, email) ==
    IF \E u \in DOMAIN coll : coll[u].email = email
    THEN coll[CHOOSE u \in DOMAIN coll : coll[u].email = email]
    ELSE NoDoc

\* the document register builds, with the fields the handlers read
NewUser(req) == [email |-> req.email, role |-> req.role]

\* existing = db["user"].find_one({"email": req.email}); raise when there is one
RegisterFind(p) ==
    /\ \E req \in RegisterInputs :
        /\ Receive(p, [op |-> "register"] @@ req)
        /\ IF find_by_email(users, req.email) # NoDoc
           THEN Finish(p, EmailRegistered)
           ELSE Goto(p, "register_insert")
    /\ local' = [local EXCEPT ![p] = NoLocal]
    /\ UNCHANGED <<users, donations, nextId, now>>

\* result = db["user"].insert_one(user_doc); return user_doc with its id
RegisterInsert(p) ==
    /\ pc[p] = "register_insert"
    /\ users' = insert_one(users, nextId, NewUser(call[p]))
    /\ nextId' = nextId + 1
    /\ Finish(p, Ok(NewUser(call[p]) @@ [id |-> IdStr(nextId)]))
    /\ UNCHANGED <<donations, now, call, local, started>>

----------------------------------------------------------------------------
(* GET /donations *)

\* query parameters of list_donations
ListInputs ==
    [status : {None, "available", "delivered"},
     restaurant_id : {None, "", IdStr(1)},
     exclude_claimed : BOOLEAN,
     search : {None, "RI", "s..e"}]

\* Python truth of an optional string: None and "" are false
Truthy(x) == x \notin {None, ""}

UpperLetters == "ABCDEFGHIJKLMNOPQRSTUVWXYZ"
LowerLetters == "abcdefghijklmnopqrstuvwxyz"

\* the upper-case letters with their lower-case forms
LowerOf ==
    [c \in {SubSeq(UpperLetters, i, i) : i \in 1..Len(UpperLetters)} |->
        LET i == CHOOSE i \in 1..Len(UpperLetters) : SubSeq(UpperLetters, i, i) = c
        IN SubSeq(LowerLetters, i, i)]

\* one character folded to lower case ("$options": "i")
Fold(c) == IF c \in DOMAIN LowerOf THEN LowerOf[c] ELSE c

\* the pattern matches the text at position i: a pattern character matches itself
\* in either case, "." matches any character
RegexMatchesAt(pattern, text, i) ==
    \A k \in 1..Len(pattern) :
        \/ SubSeq(pattern, k, k) = "."
        \/ Fold(SubSeq(pattern, k, k)) = Fold(SubSeq(text, i + k - 1, i + k - 1))

\* {"$regex": pattern, "$options": "i"}: the pattern matches somewhere in the text
RegexSearch(pattern, text) ==
    \E i \in 1..(Len(text) - Len(pattern) + 1) : RegexMatchesAt(pattern, text, i)

\* the filter with exclude_claimed applied before status, so that status wins
BuildFilter_StatusLast(q) ==
    (IF Truthy(q.search)
     THEN "$or" :> <<[field |-> "food_item", regex |-> q.search],
                     [field |-> "restaurant_name", regex |-> q.search],
                     [field |-> "pickup_address", regex |-> q.search]>>
     ELSE << >>)
    @@ (IF Truthy(q.status) THEN "status" :> q.status ELSE << >>)
    @@ (IF q.exclude_claimed THEN "status" :> "available" ELSE << >>)
    @@ (IF Truthy(q.restaurant_id) THEN "restaurant_id" :> q.restaurant_id ELSE << >>)

\* filt: the dict list_donations builds; a later assignment to a key replaces an
\* earlier one (f @@ g keeps f where both are defined)
BuildFilter(q) ==
    (IF Truthy(q.search)
     THEN "$or" :> <<[field |-> "food_item", regex |-> q.search],
                     [field |-> "restaurant_name", regex |-> q.search],
                     [field |-> "pickup_address", regex |-> q.search]>>
     ELSE << >>)
    @@ (IF q.exclude_claimed THEN "status" :> "available" ELSE << >>)
    @@ (IF Truthy(q.restaurant_id) THEN "restaurant_id" :> q.restaurant_id ELSE << >>)
    @@ (IF Truthy(q.status) THEN "status" :> q.status ELSE << >>)

\* the document satisfies the query document filt
MatchesFilter(doc, filt) ==
    \A k \in DOMAIN filt :
        IF k = "$or"
        THEN \E j \in DOMAIN filt[k] : RegexSearch(filt[k][j].regex, doc[filt[k][j].field])
        ELSE doc[k] = filt[k]

\* db["donation"].find(filt): the _ids of the matching documents
find(coll, filt) == {d \in DOMAIN coll : MatchesFilter(coll[d], filt)}

RECURSIVE sort_ascending(_, _)
\* the _ids ordered by created_at, oldest first
sort_ascending(coll, ids) ==
    IF ids = {} THEN << >>
    ELSE LET d == CHOOSE d \in ids : \A e \in ids : coll[d].created_at <= coll[e].created_at
         IN <<d>> \o sort_ascending(coll, ids \ {d})

RECURSIVE sort_descending(_, _)
\* .sort("created_at", -1): the _ids ordered by created_at, newest first
sort_descending(coll, ids) ==
    IF ids = {} THEN << >>
    ELSE LET d == CHOOSE d \in ids : \A e \in ids : coll[d].created_at >= coll[e].created_at
         IN <<d>> \o sort_descending(coll, ids \ {d})

\* [serialize_doc(d) for d in docs]
ListResult(coll, q) ==
    LET ids == sort_descending(coll, find(coll, BuildFilter(q)))
    IN [i \in DOMAIN ids |-> serialize_doc(coll, IdStr(ids[i]))]

\* the whole handler: one find
ListDonations(p) ==
    /\ \E q \in ListInputs :
        /\ Receive(p, [op |-> "list"] @@ q)
        /\ Finish(p, Ok(ListResult(donations, q)))
    /\ local' = [local EXCEPT ![p] = NoLocal]
    /\ UNCHANGED <<users, donations, nextId, now>>

----------------------------------------------------------------------------
(* Specification *)

Next ==
    \/ \E p \in Procs : CreateFindUser(p)
    \/ \E p \in Procs : CreateInsert(p)
    \/ \E p \in Procs : UpdateDonation(p)
    \/ \E p \in Procs : UpdateRead(p)
    \/ \E p \in Procs : DeleteDonation(p)
    \/ \E p \in Procs : ClaimFindUser(p)
    \/ \E p \in Procs : ClaimFindDonation(p)
    \/ \E p \in Procs : ClaimWrite(p)
    \/ \E p \in Procs : ClaimRead(p)
    \/ \E p \in Procs : DeliverFind(p)
    \/ \E p \in Procs : DeliverWrite(p)
    \/ \E p \in Procs : DeliverRead(p)

\* the donation requests
Spec == Init /\ [][Next]_vars

NextAll ==
    \/ Next
    \/ \E p \in Procs : RegisterFind(p)
    \/ \E p \in Procs : RegisterInsert(p)

\* the donation requests together with registrations
SpecAll == Init /\ [][NextAll]_vars

\* donations listed at most
MaxListDocs == 2

\* bodies of DonationCreateRequest behind the listed donations; both restaurant_id
\* strings name the seeded restaurant
ListCreateInputs ==
    { [food_item |-> "Rice", quantity |-> "10kg", pickup_address |-> "12 Main St",
       expiry_time |-> "2030-01-01", restaurant_id |-> IdStr(1),
       restaurant_name |-> "Spice Hub"],
      [food_item |-> "Bread", quantity |-> "5kg", pickup_address |-> "9 Side Rd",
       expiry_time |-> "2031-06-30", restaurant_id |-> HexUpper[1],
       restaurant_name |-> "Rice Bowl"] }

\* the i-th donation of a collection: created at time 2(i-1), then left alone,
\* claimed or delivered at the next instant
ListDocs(i) ==
    LET t == 2 * (i - 1)
        claimer == CHOOSE c \in ClaimInputs : c.user_id = IdStr(2) /\ c.role = "ngo"
    IN UNION { { NewDonation(req, t),
                 SetFields(NewDonation(req, t), ClaimUpdates(claimer, t + 1)),
                 SetFields(NewDonation(req, t), DeliverUpdates(t + 1)) } :
               req \in ListCreateInputs }

\* the store after n creates, some followed by a claim or a deliver
InitList ==
    /\ users = SeedUsers
    /\ \E n \in 0..MaxListDocs :
        /\ nextId = FirstDonationId + n
        /\ now = 2 * n
        /\ donations \in
            [FirstDonationId..(FirstDonationId + n - 1) -> UNION {ListDocs(i) : i \in 1..MaxListDocs}]
        /\ \A d \in DOMAIN donations : donations[d] \in ListDocs(d - FirstDonationId + 1)
    /\ pc = [p \in Procs |-> "idle"]
    /\ call = [p \in Procs |-> Idle]
    /\ local = [p \in Procs |-> NoLocal]
    /\ resp = [p \in Procs |-> NoResponse]
    /\ started = 0

NextList == \E p \in Procs : ListDonations(p)

\* list requests on a stored collection
SpecList == InitList /\ [][NextList]_vars

----------------------------------------------------------------------------
(* Vocabulary of the properties *)

\* process p takes the handler's first step for a request of kind o in this step
Receives(p, o) ==
    /\ pc[p] \in {"idle", "done"}
    /\ \A q \in Procs : q < p => pc[q] \notin {"idle", "done"}
    /\ started' = started + 1
    /\ call'[p].op = o

\* process p makes the store call at label l in this step
Steps(p, l) == pc[p] = l /\ pc'[p] # l

\* process p has finished a request of kind o
Finished(p, o) == pc[p] = "done" /\ call[p].op = o

\* user_id resolves to an existing user whose role is ngo or society
ValidClaimer(uid) ==
    /\ ObjectId(uid) \in DOMAIN users
    /\ users[ObjectId(uid)].role \in {"ngo", "society"}

\* restaurant_id resolves to an existing user whose role is restaurant
ValidRestaurant(rid) ==
    /\ ObjectId(rid) \in DOMAIN users
    /\ users[ObjectId(rid)].role = "restaurant"

\* the label "<Capitalized role>: <user_name>" of a claim request
ClaimLabel(c) == capitalize(c.role) \o ": " \o c.user_name

----------------------------------------------------------------------------
(* C1 *)

\* C1: two claim requests on the same donation never both succeed: of two
\* finished claims naming one donation at most one got 200, the other got
\* 400 "Donation not available".
C1_ExactlyOneClaimSucceeds ==
    \A p, q \in Procs :
        ( /\ p # q
          /\ Finished(p, "claim") /\ Finished(q, "claim")
          /\ ObjectId(call[p].donation_id) = ObjectId(call[q].donation_id)
          /\ resp[p].status = 200 )
        => resp[q].status # 200

----------------------------------------------------------------------------
(* C2 *)

\* C2 as stated: for every donation, claimed_by and claimed_by_id are both null
\* if and only if status is available.
C2_ClaimFieldsNullIffAvailable ==
    \A d \in DOMAIN donations :
        (donations[d].claimed_by = None /\ donations[d].claimed_by_id = None)
            <=> donations[d].status = "available"

\* C2 amended: claimed_by and claimed_by_id are both null or both set; they are
\* null while status is available and set while status is claimed (a delivered
\* donation has them set only if it was claimed before).
C2_ClaimFieldsByStatus ==
    \A d \in DOMAIN donations :
        /\ (donations[d].claimed_by = None) <=> (donations[d].claimed_by_id = None)
        /\ donations[d].status = "available" => donations[d].claimed_by = None
        /\ donations[d].status = "claimed" => donations[d].claimed_by # None

\* a deliver has finished on a donation that was never claimed
C2_Witness ==
    \E p \in Procs :
        /\ Finished(p, "deliver")
        /\ ObjectId(call[p].donation_id) \in DOMAIN donations
        /\ donations[ObjectId(call[p].donation_id)].status = "delivered"
        /\ donations[ObjectId(call[p].donation_id)].claimed_by = None
        /\ donations[ObjectId(call[p].donation_id)].claimed_by_id = None

----------------------------------------------------------------------------
(* C3 *)

\* C3: every step that writes status claimed to a donation starts from a state
\* in which that donation's status is available.
C3_ClaimedOnlyFromAvailable ==
    [][\A p \in Procs :
        ( /\ Steps(p, "claim_write")
          /\ ObjectId(call[p].donation_id) \in DOMAIN donations )
        => donations[ObjectId(call[p].donation_id)].status = "available"]_vars

----------------------------------------------------------------------------
(* C4 *)

\* C4: every donation's status is one of available, claimed, delivered in every
\* reachable state.
C4_StatusInEnum ==
    \A d \in DOMAIN donations :
        donations[d].status \in {"available", "claimed", "delivered"}

\* a donation that was claimed and then delivered
C4_Witness ==
    \E d \in DOMAIN donations :
        donations[d].status = "delivered" /\ donations[d].claimed_by # None

----------------------------------------------------------------------------
(* C5 *)

\* C5: the steps of update(id, fields) insert and delete nothing, leave status,
\* claimed_by and claimed_by_id of every donation as they were, and leave every
\* donation other than the one named unchanged, whatever fields are supplied.
C5_UpdateFrame ==
    [][\A p \in Procs :
        (Receives(p, "update") \/ Steps(p, "update_read"))
        => /\ DOMAIN donations' = DOMAIN donations
           /\ \A d \in DOMAIN donations :
                /\ donations'[d].status = donations[d].status
                /\ donations'[d].claimed_by = donations[d].claimed_by
                /\ donations'[d].claimed_by_id = donations[d].claimed_by_id
                /\ d # ObjectId(call'[p].donation_id) => donations'[d] = donations[d]]_vars

\* an update with fields has been applied to one of two donations
C5_Witness ==
    /\ Cardinality(DOMAIN donations) >= 2
    /\ \E p \in Procs :
        /\ Finished(p, "update")
        /\ DOMAIN NonNull(call[p].req) # {}
        /\ resp[p].status = 200
        /\ resp[p].body # NoDoc
        /\ donations[ObjectId(call[p].donation_id)].food_item = "Bread"

----------------------------------------------------------------------------
(* C6 *)

\* C6: a request that names a donation already deleted when the request began
\* (update with any fields, claim by a valid claimer, deliver, delete) ends
\* with 404 "Donation not found".
C6_DeletedIdNotFound ==
    \A p \in Procs :
        ( /\ pc[p] = "done"
          /\ local[p].gone
          /\ \/ call[p].op \in {"update", "deliver", "delete"}
             \/ call[p].op = "claim" /\ ValidClaimer(call[p].user_id) )
        => resp[p] = DonationNotFound

----------------------------------------------------------------------------
(* C7 *)

\* C7: a claim that reports success returns the donation with status claimed,
\* claimed_by the label of that call and claimed_by_id the caller's user_id.
C7_ClaimReturnsClaimedRecord ==
    \A p \in Procs :
        (Finished(p, "claim") /\ resp[p].status = 200)
        => IF resp[p].body = NoDoc THEN FALSE
           ELSE /\ resp[p].body.status = "claimed"
                /\ resp[p].body.claimed_by = ClaimLabel(call[p])
                /\ resp[p].body.claimed_by_id = call[p].user_id

----------------------------------------------------------------------------
(* C8 *)

\* C8: claim checks in a fixed order.  A user_id that does not resolve to an ngo
\* or society user ends the request with "Invalid claimer" whatever the donation
\* is; otherwise a donation_id that does not resolve ends it with "Donation not
\* found"; otherwise a status other than available ends it with "Donation not
\* available"; only a request that passed all three reaches the write, and no
\* other step of claim modifies a donation.
C8_ClaimCheckOrder ==
    [][\A p \in Procs :
        /\ Receives(p, "claim") =>
            /\ donations' = donations
            /\ IF ValidClaimer(call'[p].user_id)
               THEN pc'[p] = "claim_find"
               ELSE /\ pc'[p] = "done"
                    /\ ~oidRaises(call'[p].user_id) => resp'[p] = InvalidClaimerErr
        /\ Steps(p, "claim_find") =>
            /\ donations' = donations
            /\ ValidClaimer(call[p].user_id)
            /\ ~oidRaises(call[p].donation_id) =>
                IF ObjectId(call[p].donation_id) \notin DOMAIN donations
                THEN pc'[p] = "done" /\ resp'[p] = DonationNotFound
                ELSE IF donations[ObjectId(call[p].donation_id)].status # "available"
                     THEN pc'[p] = "done" /\ resp'[p] = NotAvailable
                     ELSE pc'[p] = "claim_write"
            /\ pc'[p] = "claim_write" =>
                /\ ObjectId(call[p].donation_id) \in DOMAIN donations
                /\ donations[ObjectId(call[p].donation_id)].status = "available"
        /\ Steps(p, "claim_read") => donations' = donations]_vars

\* a claim by a valid claimer on an existing donation was refused at the third check
C8_Witness ==
    \E p \in Procs :
        /\ Finished(p, "claim")
        /\ resp[p] = NotAvailable
        /\ ValidClaimer(call[p].user_id)
        /\ ObjectId(call[p].donation_id) \in DOMAIN donations

----------------------------------------------------------------------------
(* C9 *)

\* C9: a finished deliver on a well-formed id either returns the donation with
\* status delivered or, when the donation does not exist, ends with 404
\* "Donation not found" -- also when the donation is deleted between deliver's
\* lookup and its write.
C9_DeliverResult ==
    \A p \in Procs :
        (Finished(p, "deliver") /\ ~oidRaises(call[p].donation_id))
        => IF resp[p].body = NoDoc
           THEN resp[p] = DonationNotFound
           ELSE resp[p].status = 200 /\ resp[p].body.status = "delivered"

----------------------------------------------------------------------------
(* C10 *)

\* C10: create goes on to insert only when restaurant_id resolves to a user whose
\* role is restaurant, and its insert adds exactly one donation, with status
\* available and claimed_by, claimed_by_id null, changing no other donation; for
\* a missing user or a user of another role it ends with "Invalid restaurant
\* user" and inserts nothing.
C10_CreateChecksRestaurant ==
    [][\A p \in Procs :
        /\ Receives(p, "create") =>
            /\ donations' = donations
            /\ IF ValidRestaurant(call'[p].restaurant_id)
               THEN pc'[p] = "create_insert"
               ELSE /\ pc'[p] = "done"
                    /\ resp'[p].status # 200
                    /\ ~oidRaises(call'[p].restaurant_id) => resp'[p] = InvalidRestaurant
        /\ Steps(p, "create_insert") =>
            /\ ValidRestaurant(call[p].restaurant_id)
            /\ resp'[p].status = 200
            /\ \E d \in DOMAIN donations' \ DOMAIN donations :
                /\ DOMAIN donations' = DOMAIN donations \cup {d}
                /\ donations'[d].status = "available"
                /\ donations'[d].claimed_by = None
                /\ donations'[d].claimed_by_id = None
                /\ resp'[p].body.id = IdStr(d)
            /\ \A e \in DOMAIN donations : donations'[e] = donations[e]]_vars

\* one create was refused for its restaurant_id and another inserted a donation
C10_Witness ==
    /\ \E p \in Procs : Finished(p, "create") /\ resp[p] = InvalidRestaurant
    /\ \E p \in Procs : Finished(p, "create") /\ resp[p].status = 200
    /\ DOMAIN donations # {}

----------------------------------------------------------------------------
(* C11 *)

\* the kinds of request
Ops == {"create", "update", "delete", "claim", "deliver", "register"}

\* process p makes a store call in this step
StepOf(p) ==
    \/ \E o \in Ops : Receives(p, o)
    \/ pc[p] \notin {"idle", "done"} /\ pc'[p] # pc[p]

\* C11: a request that ends with an error (400 or 404) has written nothing: the
\* step that raises leaves both collections as they are, it is the request's
\* first store call or follows only the lookups of claim, and those lookups
\* write nothing either.
C11_ErrorsWriteNothing ==
    [][\A p \in Procs :
        /\ (StepOf(p) /\ pc'[p] = "done" /\ resp'[p].status # 200) =>
            /\ users' = users
            /\ donations' = donations
            /\ pc[p] \in {"idle", "done", "claim_find"}
        /\ Receives(p, "claim") => users' = users /\ donations' = donations]_vars

\* a registration was refused for its email after a donation had been stored
C11_Witness ==
    /\ \E p \in Procs : Finished(p, "register") /\ resp[p] = EmailRegistered
    /\ DOMAIN donations # {}
    /\ DOMAIN users = DOMAIN SeedUsers

----------------------------------------------------------------------------
(* C12 *)

\* C12: update on an existing donation sets its updated_at to the current time,
\* whatever fields are supplied, none included.
C12_UpdateRefreshesUpdatedAt ==
    [][\A p \in Procs :
        ( /\ Receives(p, "update")
          /\ ObjectId(call'[p].donation_id) \in DOMAIN donations )
        => donations'[ObjectId(call'[p].donation_id)].updated_at = now]_vars

----------------------------------------------------------------------------
(* C13 *)

\* C13: update on a well-formed id that no donation has ends with 404 "Donation
\* not found", whatever fields are supplied, none included.
C13_UpdateMissingNotFound ==
    [][\A p \in Procs :
        ( /\ Receives(p, "update")
          /\ ~oidRaises(call'[p].donation_id)
          /\ ObjectId(call'[p].donation_id) \notin DOMAIN donations )
        => pc'[p] = "done" /\ resp'[p] = DonationNotFound]_vars

----------------------------------------------------------------------------
(* C17 *)

\* C17: a donation whose status is delivered keeps status delivered in the next
\* state unless it is deleted.
C17_DeliveredStaysDelivered ==
    [][\A d \in DOMAIN donations \cap DOMAIN donations' :
        donations[d].status = "delivered" => donations'[d].status = "delivered"]_vars

----------------------------------------------------------------------------
(* C18 *)

\* C18: no step brings back a deleted donation: an _id that was given out and is
\* not in the collection is not in it after the step either, and the write of a
\* claim or deliver whose donation is gone changes nothing.
C18_DeletedNeverRecreated ==
    [][/\ \A d \in FirstDonationId..(nextId - 1) :
            d \notin DOMAIN donations => d \notin DOMAIN donations'
       /\ \A p \in Procs :
            ( /\ Steps(p, "claim_write") \/ Steps(p, "deliver_write")
              /\ ObjectId(call[p].donation_id) \notin DOMAIN donations )
            => donations' = donations]_vars

\* a delete has taken effect while a claim or deliver on the same id is between
\* its lookup and its write
C18_Witness ==
    \E p \in Procs :
        /\ pc[p] \in {"claim_write", "deliver_write"}
        /\ ~local[p].gone
        /\ Deleted(call[p].donation_id)

----------------------------------------------------------------------------
(* C19 *)

\* user_name values of the claim requests
UserNames == {c.user_name : c \in ClaimInputs}

\* C19 as stated: claimed_by_id, when set, references an existing user whose
\* stored role is ngo or society, and the role in the claimed_by label is that
\* user's stored role.
C19_LabelRoleIsStoredRole ==
    \A d \in DOMAIN donations :
        donations[d].claimed_by_id # None =>
            /\ ValidClaimer(donations[d].claimed_by_id)
            /\ \E name \in UserNames :
                donations[d].claimed_by =
                    capitalize(users[ObjectId(donations[d].claimed_by_id)].role)
                        \o ": " \o name

\* C19 amended: claimed_by_id, when set, references an existing user whose stored
\* role is ngo or society, and the claimed_by label carries the role and the name
\* given in a claim request made with that user_id (Ngo or Society, not
\* necessarily the stored role).
C19_ClaimerExistsLabelFromRequest ==
    \A d \in DOMAIN donations :
        donations[d].claimed_by_id # None =>
            /\ ValidClaimer(donations[d].claimed_by_id)
            /\ \E c \in ClaimInputs :
                /\ c.user_id = donations[d].claimed_by_id
                /\ donations[d].claimed_by = ClaimLabel(c)

\* an ngo user has claimed a donation under the role society
C19_Witness ==
    \E d \in DOMAIN donations :
        /\ donations[d].claimed_by_id = IdStr(2)
        /\ users[2].role = "ngo"
        /\ donations[d].claimed_by = "Society: Helpers Inc"

----------------------------------------------------------------------------
(* C15 *)

\* C15: no two user documents have the same email.
C15_EmailUnique ==
    \A u, v \in DOMAIN users : users[u].email = users[v].email => u = v

----------------------------------------------------------------------------
(* C14, C16 *)

\* the search text occurs, as the handler matches it, in one of the three
\* searched fields of the document
SearchHits(doc, search) ==
    \/ RegexSearch(search, doc.food_item)
    \/ RegexSearch(search, doc.restaurant_name)
    \/ RegexSearch(search, doc.pickup_address)

\* the response body lists stored donations, as serialised, none twice
ListsStored(body) ==
    /\ \A i \in DOMAIN body :
        /\ ObjectId(body[i].id) \in DOMAIN donations
        /\ body[i] = serialize_doc(donations, body[i].id)
    /\ \A i, j \in DOMAIN body : body[i].id = body[j].id => i = j

\* C14: a list request with exclude_claimed = true returns only donations of
\* status available, whatever its status argument, and every returned donation
\* still has the given restaurant_id and is hit by the given search.
C14_ExcludeClaimedOnlyAvailable ==
    \A p \in Procs :
        (Finished(p, "list") /\ call[p].exclude_claimed) =>
            /\ resp[p].status = 200
            /\ ListsStored(resp[p].body)
            /\ \A i \in DOMAIN resp[p].body :
                LET doc == donations[ObjectId(resp[p].body[i].id)] IN
                /\ doc.status = "available"
                /\ Truthy(call[p].restaurant_id) => doc.restaurant_id = call[p].restaurant_id
                /\ Truthy(call[p].search) => SearchHits(doc, call[p].search)

\* exclude_claimed = true with status = delivered, on a store holding a delivered
\* donation, has returned an available donation
C14_Witness ==
    \E p \in Procs :
        /\ Finished(p, "list")
        /\ call[p].exclude_claimed
        /\ call[p].status = "delivered"
        /\ Truthy(call[p].restaurant_id)
        /\ Truthy(call[p].search)
        /\ \E d \in DOMAIN donations : donations[d].status = "delivered"
        /\ Len(resp[p].body) >= 1

\* the status a list request asks for: available under exclude_claimed = true,
\* else its status argument
WantedStatus(q) == IF q.exclude_claimed THEN "available" ELSE q.status

\* the donation satisfies every filter rule present in the request
Wanted(doc, q) ==
    /\ Truthy(WantedStatus(q)) => doc.status = WantedStatus(q)
    /\ Truthy(q.restaurant_id) => doc.restaurant_id = q.restaurant_id
    /\ Truthy(q.search) => SearchHits(doc, q.search)

C16_WitnessNoArgument ==
    \E p \in Procs :
        /\ Finished(p, "list")
        /\ ~call[p].exclude_claimed
        /\ ~Truthy(call[p].status)
        /\ ~Truthy(call[p].restaurant_id)
        /\ ~Truthy(call[p].search)
        /\ Len(resp[p].body) = MaxListDocs

====
